---- MODULE Spec2Model ----
(***************************************************************************)
(* A model of the ray tracer: interval, sphere and hittable_list           *)
(* intersection, the materials, write_color and the camera's render and    *)
(* ray_color.                                                              *)
(*                                                                         *)
(* Numbers.  A C++ double is modelled as a fixed-point number: the integer *)
(* n stands for the real n / Scale.  A product or a quotient is rounded    *)
(* toward zero onto that grid, a square root is rounded down.  A vec3 is a *)
(* triple of such numbers.                                                 *)
(***************************************************************************)
EXTENDS Integers, Sequences, FiniteSets, TLC

\* The fixed-point grid: n stands for n / Scale.
Scale == 1000

\* +infinity: larger than every finite number the model computes.
Infinity == 100000000

\* A NaN.  Every comparison the code makes with a NaN is false; the model's
\* operators that may meet one test for it first.
NaN == -Infinity - 1

Abs(a) == IF a < 0 THEN -a ELSE a

\* Integer quotient rounded toward zero (y # 0).
Quot(x, y) ==
    IF (x >= 0) = (y > 0) THEN Abs(x) \div Abs(y) ELSE -(Abs(x) \div Abs(y))

\* The same, its arguments evaluated once.
TDiv(a, b) == CHOOSE q \in {Quot(x, y) : x \in {a}, y \in {b}} : TRUE

\* double * double
FMul(a, b) == TDiv(a * b, Scale)

\* double / double, divisor not zero
FDiv(a, b) == TDiv(a * Scale, b)

\* Neither a NaN nor an infinity.
IsNum(x) == x # NaN /\ x # Infinity /\ x # -Infinity

\* x < y and x <= y as the code evaluates them: false when either is a NaN.
Lt(x, y) == x # NaN /\ y # NaN /\ x < y

Le(x, y) == x # NaN /\ y # NaN /\ x <= y

\* -x
XNeg(x) == IF x = NaN THEN NaN ELSE -x

\* double / double, the divisor zero or not: 0/0 is a NaN, x/0 an infinity
\* of x's sign (the zero divisors of the model are +0).
XDiv(a, b) ==
    IF b # 0 THEN FDiv(a, b)
    ELSE IF a = 0 THEN NaN
    ELSE IF a > 0 THEN Infinity
    ELSE -Infinity

\* double * double where a factor may be a NaN or an infinity
XMul(a, b) ==
    IF a = NaN \/ b = NaN THEN NaN
    ELSE IF IsNum(a) /\ IsNum(b) THEN FMul(a, b)
    ELSE IF a = 0 \/ b = 0 THEN NaN
    ELSE IF (a > 0) = (b > 0) THEN Infinity
    ELSE -Infinity

\* double + double where a term may be a NaN or an infinity
XAdd(a, b) ==
    IF a = NaN \/ b = NaN THEN NaN
    ELSE IF IsNum(a) /\ IsNum(b) THEN a + b
    ELSE IF IsNum(a) THEN b
    ELSE IF IsNum(b) THEN a
    ELSE IF a = b THEN a
    ELSE NaN

RECURSIVE ISqrt(_)
\* The integer square root, rounded down (n >= 0).
ISqrt(n) ==
    IF n < 2 THEN n
    ELSE CHOOSE x \in {IF (s + 1) * (s + 1) > n THEN s ELSE s + 1 :
                          s \in {2 * ISqrt(n \div 4)}} : TRUE

\* std::sqrt of a non-negative double
FSqrt(x) == CHOOSE q \in {ISqrt(n) : n \in {x * Scale}} : TRUE

\* Body applied to the value of v: v is evaluated once, where a LET's
\* definition may be evaluated again at each of its uses.
Let(v, Body(_)) == CHOOSE x \in {Body(e) : e \in {v}} : TRUE

\* The double of an integer literal.
Num(k) == k * Scale

(***************************************************************************)
(* vec3 and ray                                                            *)
(***************************************************************************)
Vec(x, y, z) == <<x, y, z>>

VAdd(u, v) == <<u[1] + v[1], u[2] + v[2], u[3] + v[3]>>

VSub(u, v) == <<u[1] - v[1], u[2] - v[2], u[3] - v[3]>>

VNeg(v) == <<XNeg(v[1]), XNeg(v[2]), XNeg(v[3])>>

\* t * v
VScale(t, v) == <<FMul(t, v[1]), FMul(t, v[2]), FMul(t, v[3])>>

\* v / t
VDiv(v, t) == <<XDiv(v[1], t), XDiv(v[2], t), XDiv(v[3], t)>>

\* elementwise product of two colors
VMul(u, v) == <<FMul(u[1], v[1]), FMul(u[2], v[2]), FMul(u[3], v[3])>>

IsNumVec(v) == IsNum(v[1]) /\ IsNum(v[2]) /\ IsNum(v[3])

dot(u, v) ==
    IF IsNumVec(u) /\ IsNumVec(v)
    THEN FMul(u[1], v[1]) + FMul(u[2], v[2]) + FMul(u[3], v[3])
    ELSE XAdd(XAdd(XMul(u[1], v[1]), XMul(u[2], v[2])), XMul(u[3], v[3]))

cross(u, v) ==
    <<FMul(u[2], v[3]) - FMul(u[3], v[2]),
      FMul(u[3], v[1]) - FMul(u[1], v[3]),
      FMul(u[1], v[2]) - FMul(u[2], v[1])>>

length_squared(v) == dot(v, v)

length(v) == FSqrt(length_squared(v))

unit_vector(v) == Let(v, LAMBDA w : Let(length(w), LAMBDA len : VDiv(w, len)))

\* vec3::near_zero: every component below 1e-8 in size, which on the grid is 0.
near_zero(v) == v[1] = 0 /\ v[2] = 0 /\ v[3] = 0

reflect(v, n) == Let(2 * dot(v, n), LAMBDA d : VSub(v, VScale(d, n)))

Ray(orig, dir) == [origin |-> orig, direction |-> dir]

\* ray::at
at(r, t) == VAdd(r.origin, VScale(t, r.direction))

(***************************************************************************)
(* interval                                                                *)
(***************************************************************************)
Interval(lo, hi) == [min |-> lo, max |-> hi]

\* contains, but with the upper end left out.
containsMut(iv, x) == iv.min <= x /\ x < iv.max

contains(iv, x) == iv.min <= x /\ x <= iv.max

surrounds(iv, x) == iv.min < x /\ x < iv.max

clamp(iv, x) ==
    IF x < iv.min THEN iv.min
    ELSE IF x > iv.max THEN iv.max
    ELSE x

(***************************************************************************)
(* color.h                                                                 *)
(***************************************************************************)
linear_to_gamma(linear_component) ==
    IF linear_component # NaN /\ linear_component > 0
    THEN IF linear_component = Infinity THEN Infinity ELSE FSqrt(linear_component)
    ELSE 0

\* intensity, but with the upper end at 1.0.
intensityMut == Interval(0, 1000)

\* static const interval intensity(0.000, 0.999)
\* (0.999 is 999 on the grid.)
intensity == Interval(0, 999)

\* int(256 * intensity.clamp(x))
ToByte(x) == TDiv(256 * clamp(intensity, x), Scale)

\* write_color: the three integers of the line it writes.
write_color(pixel_color) ==
    <<ToByte(linear_to_gamma(pixel_color[1])),
      ToByte(linear_to_gamma(pixel_color[2])),
      ToByte(linear_to_gamma(pixel_color[3]))>>

(***************************************************************************)
(* materials: the constructors                                             *)
(***************************************************************************)
Black == <<0, 0, 0>>

\* The base class material.
Material == [kind |-> "material", albedo |-> Black, fuzz |-> 0]

Lambertian(albedo) == [kind |-> "lambertian", albedo |-> albedo, fuzz |-> 0]

\* metal::metal: fuzz(fuzz < 1 ? fuzz : 1)
MetalFuzz(fuzz) == IF fuzz < Num(1) THEN fuzz ELSE Num(1)

Metal(albedo, fuzz) == [kind |-> "metal", albedo |-> albedo, fuzz |-> MetalFuzz(fuzz)]

\* An empty shared_ptr<material>.
NullMat == [kind |-> "null", albedo |-> Black, fuzz |-> 0]

(***************************************************************************)
(* hit_record, sphere                                                      *)
(***************************************************************************)
\* A hit_record nothing has written yet.
NoRec == [t |-> 0, p |-> <<0, 0, 0>>, normal |-> <<0, 0, 0>>,
          front_face |-> FALSE, mat |-> NullMat]

\* hit_record::set_face_normal
set_face_normal(rec, r, outward_normal) ==
    Let(Lt(dot(r.direction, outward_normal), 0), LAMBDA ff :
        [rec EXCEPT !.front_face = ff,
                    !.normal = IF ff THEN outward_normal ELSE VNeg(outward_normal)])

\* sphere::sphere: the radius is clamped at zero.
Sphere(center, radius, mat) ==
    [center |-> center, radius |-> IF radius > 0 THEN radius ELSE 0, mat |-> mat]

\* The quadratic sphere::hit solves.
Quad(s, r) ==
    Let(VSub(s.center, r.origin), LAMBDA oc :
    Let(length_squared(r.direction), LAMBDA a :
    Let(dot(r.direction, oc), LAMBDA h :
    Let(length_squared(oc) - FMul(s.radius, s.radius), LAMBDA c :
        [a |-> a, h |-> h, c |-> c, discriminant |-> FMul(h, h) - FMul(a, c)]))))

\* NearestRoot, but with the larger root tried first.
NearestRootMut(q, ray_t) ==
    Let(FSqrt(q.discriminant), LAMBDA sqrtd :
    Let(FDiv(q.h + sqrtd, q.a), LAMBDA r1 :
        IF contains(ray_t, r1) THEN [found |-> TRUE, root |-> r1]
        ELSE Let(FDiv(q.h - sqrtd, q.a), LAMBDA r2 :
             IF contains(ray_t, r2) THEN [found |-> TRUE, root |-> r2]
             ELSE [found |-> FALSE, root |-> 0])))

\* sphere::hit's choice of root: the smaller one if the interval contains it,
\* else the larger one.  (found, root)
NearestRoot(q, ray_t) ==
    Let(FSqrt(q.discriminant), LAMBDA sqrtd :
    Let(FDiv(q.h - sqrtd, q.a), LAMBDA r1 :
        IF contains(ray_t, r1) THEN [found |-> TRUE, root |-> r1]
        ELSE Let(FDiv(q.h + sqrtd, q.a), LAMBDA r2 :
             IF contains(ray_t, r2) THEN [found |-> TRUE, root |-> r2]
             ELSE [found |-> FALSE, root |-> 0])))

\* sphere::hit: (hit, rec), rec being the caller's record when there is no hit.
SphereHit(s, r, ray_t, rec) ==
    Let(Quad(s, r), LAMBDA q :
        IF q.discriminant < 0 THEN [hit |-> FALSE, rec |-> rec]
        ELSE Let(NearestRoot(q, ray_t), LAMBDA nr :
             IF ~nr.found THEN [hit |-> FALSE, rec |-> rec]
             ELSE Let(at(r, nr.root), LAMBDA p :
                  Let(VDiv(VSub(p, s.center), s.radius), LAMBDA outward_normal :
                  Let(set_face_normal([rec EXCEPT !.t = nr.root, !.p = p], r,
                                      outward_normal), LAMBDA rec2 :
                      [hit |-> TRUE, rec |-> [rec2 EXCEPT !.mat = s.mat]])))))

(***************************************************************************)
(* hittable_list::hit                                                      *)
(***************************************************************************)
\* The loop's locals.
HitLocals(ray_t) ==
    [temp_rec |-> NoRec, hit_anything |-> FALSE, closest_so_far |-> ray_t.max,
     rec |-> NoRec]

\* object->hit(r, interval(ray_t.min, closest_so_far), temp_rec)
ObjectHit(object, r, ray_t, st) ==
    SphereHit(object, r, Interval(ray_t.min, st.closest_so_far), st.temp_rec)

\* HitUpdate, but closest_so_far is left as it was.
HitUpdateMut(st, res) ==
    IF res.hit
    THEN [temp_rec |-> res.rec, hit_anything |-> TRUE,
          closest_so_far |-> st.closest_so_far, rec |-> res.rec]
    ELSE [st EXCEPT !.temp_rec = res.rec]

\* The body of the if: a hit becomes the closest so far.
HitUpdate(st, res) ==
    IF res.hit
    THEN [temp_rec |-> res.rec, hit_anything |-> TRUE,
          closest_so_far |-> res.rec.t, rec |-> res.rec]
    ELSE [st EXCEPT !.temp_rec = res.rec]

RECURSIVE HitLoopFrom(_, _, _, _, _)
\* The for loop from member k on.
HitLoopFrom(objs, k, r, ray_t, st) ==
    IF k > Len(objs) THEN st
    ELSE Let(ObjectHit(objs[k], r, ray_t, st), LAMBDA res :
         Let(HitUpdate(st, res), LAMBDA st2 :
             HitLoopFrom(objs, k + 1, r, ray_t, st2)))

\* hittable_list::hit as one call: (hit, rec), rec being the caller's record
\* when nothing is hit.
ListHit(objs, r, ray_t, rec) ==
    Let(HitLoopFrom(objs, 1, r, ray_t, HitLocals(ray_t)), LAMBDA st :
        [hit |-> st.hit_anything, rec |-> IF st.hit_anything THEN st.rec ELSE rec])

(***************************************************************************)
(* material::scatter and its overrides.  rnd is what random_unit_vector()  *)
(* returns.  The result is (ok, attenuation, scattered); a scatter that    *)
(* returns false leaves the caller's attenuation and scattered as they     *)
(* were (att0, sc0) unless it has assigned them.                           *)
(***************************************************************************)
ScatterBase(r_in, hrec, att0, sc0) ==
    [ok |-> FALSE, attenuation |-> att0, scattered |-> sc0]

ScatterLambertian(m, r_in, hrec, rnd) ==
    Let(VAdd(hrec.normal, rnd), LAMBDA scatter_direction :
        [ok |-> TRUE, attenuation |-> m.albedo,
         scattered |-> Ray(hrec.p, IF near_zero(scatter_direction) THEN hrec.normal
                                   ELSE scatter_direction)])

ScatterMetal(m, r_in, hrec, rnd) ==
    Let(reflect(r_in.direction, hrec.normal), LAMBDA reflected :
    Let(VAdd(unit_vector(reflected), VScale(m.fuzz, rnd)), LAMBDA fuzzed :
    Let(Ray(hrec.p, fuzzed), LAMBDA scattered :
        [ok |-> dot(scattered.direction, hrec.normal) > 0,
         attenuation |-> m.albedo, scattered |-> scattered])))

\* rec.mat->scatter(r, rec, attenuation, scattered)
Scatter(m, r_in, hrec, rnd, att0, sc0) ==
    CASE m.kind = "lambertian" -> ScatterLambertian(m, r_in, hrec, rnd)
      [] m.kind = "metal" -> ScatterMetal(m, r_in, hrec, rnd)
      [] OTHER -> ScatterBase(r_in, hrec, att0, sc0)

(***************************************************************************)
(* camera::ray_color: the pieces of its body                               *)
(***************************************************************************)
\* The 0.0001 of interval(0.0001, infinity).  Every t the model computes is a
\* whole number of grid steps, and such a t is at least 0.0001 exactly when it
\* is at least one step.
TMin == 1

White == <<Num(1), Num(1), Num(1)>>

\* color(0.5, 0.7, 1.0)
Blue == <<(5 * Scale) \div 10, (7 * Scale) \div 10, Num(1)>>

\* Background, but with white and blue exchanged.
BackgroundMut(r) ==
    Let(unit_vector(r.direction), LAMBDA unit_direction :
    Let(FMul(Scale \div 2, unit_direction[2] + Num(1)), LAMBDA a :
        VAdd(VScale(a, White), VScale(Num(1) - a, Blue))))

\* The sky gradient of a ray that hits nothing.
Background(r) ==
    Let(unit_vector(r.direction), LAMBDA unit_direction :
    Let(FMul(Scale \div 2, unit_direction[2] + Num(1)), LAMBDA a :
        VAdd(VScale(Num(1) - a, White), VScale(a, Blue))))

\* world.hit(r, interval(0.0001, infinity), rec)
WorldHit(w, r) == ListHit(w, r, Interval(TMin, Infinity), NoRec)

\* NextDepth, but the depth is passed on as it is.
NextDepthMut(depth) == depth

\* The depth of the recursive call.
NextDepth(depth) == depth - 1

\* Attenuate, but the attenuation is dropped.
AttenuateMut(attenuation, c) == c

\* attenuation * ray_color(scattered, depth-1, world)
Attenuate(attenuation, c) == VMul(attenuation, c)

(***************************************************************************)
(* camera: the public fields the model leaves at one value, initialize and *)
(* get_ray                                                                 *)
(***************************************************************************)
vfov == 90

lookfrom == <<0, 0, 0>>

lookat == <<0, 0, Num(-1)>>

vup == <<0, Num(1), 0>>

defocus_angle == 0

\* A public field (10 unless set); the scenes here are rendered with 1.
focus_dist == Num(1)

\* std::tan(degrees_to_radians(deg) / 2), for the angles above
TanHalf(deg) == CASE deg = 90 -> Num(1) [] deg = 0 -> 0

\* image_height = int(image_width / aspect_ratio), at least 1
ImageHeight(width, ratio) ==
    LET h == TDiv(Num(width), ratio)
    IN  IF h < 1 THEN 1 ELSE h

\* pixel_samples_scale = 1.0 / samples_per_pixel; 1.0 / 0 is +infinity
PixelSamplesScale(samples) ==
    IF samples = 0 THEN Infinity ELSE FDiv(Num(1), Num(samples))

\* The rest of initialize().
CameraGeometry(width, height) ==
    LET center == lookfrom
        h == TanHalf(vfov)
        viewport_height == 2 * FMul(h, focus_dist)
        viewport_width == FMul(viewport_height, FDiv(Num(width), Num(height)))
        w == unit_vector(VSub(lookfrom, lookat))
        u == unit_vector(cross(vup, w))
        v == cross(w, u)
        viewport_u == VScale(viewport_width, u)
        viewport_v == VScale(viewport_height, VNeg(v))
        pixel_delta_u == VDiv(viewport_u, Num(width))
        pixel_delta_v == VDiv(viewport_v, Num(height))
        viewport_upper_left ==
            VSub(VSub(VSub(center, VScale(focus_dist, w)), VDiv(viewport_u, Num(2))),
                 VDiv(viewport_v, Num(2)))
        defocus_radius == FMul(focus_dist, TanHalf(defocus_angle))
    IN  [center |-> center,
         pixel00_loc |-> VAdd(viewport_upper_left,
                              VScale(Scale \div 2, VAdd(pixel_delta_u, pixel_delta_v))),
         pixel_delta_u |-> pixel_delta_u,
         pixel_delta_v |-> pixel_delta_v,
         u |-> u, v |-> v, w |-> w,
         defocus_disk_u |-> VScale(defocus_radius, u),
         defocus_disk_v |-> VScale(defocus_radius, v)]

\* A camera initialize() has not run on.
NoCam == CameraGeometry(1, 1)

\* get_ray(i, j); rd1 and rd2 are sample_square's two random_double() draws.
\* With defocus_angle <= 0 the origin is the camera center.
get_ray(c, pi, pj, rd1, rd2) ==
    LET offset == <<rd1 - Scale \div 2, rd2 - Scale \div 2, 0>>
        pixel_sample ==
            VAdd(VAdd(c.pixel00_loc, VScale(Num(pi) + offset[1], c.pixel_delta_u)),
                 VScale(Num(pj) + offset[2], c.pixel_delta_v))
        ray_origin == c.center
    IN  Ray(ray_origin, VSub(pixel_sample, ray_origin))

\* pixel_color * pixel_samples_scale, one component: 0 * infinity is a NaN
ScaleChannel(c, scale) ==
    IF scale = Infinity
    THEN IF c = 0 THEN NaN ELSE IF c > 0 THEN Infinity ELSE -Infinity
    ELSE FMul(c, scale)

ScaleColor(c, scale) ==
    <<ScaleChannel(c[1], scale), ScaleChannel(c[2], scale), ScaleChannel(c[3], scale)>>

(***************************************************************************)
(* The scenes, rays and intervals the model draws from.                    *)
(***************************************************************************)
\* The longest list of members.
MaxObjects == 3

Red == <<Num(1), 0, 0>>

Grey == <<Scale \div 2, Scale \div 2, Scale \div 2>>

SphereChoices ==
    { Sphere(<<0, 0, Num(-2)>>, Num(1), Lambertian(Grey)),
      Sphere(<<0, 0, Num(-4)>>, Num(1), Metal(Red, 0)),
      Sphere(<<0, 0, Num(-3)>>, Num(2), Material),
      Sphere(<<0, Num(2), Num(-2)>>, Num(1), Metal(Grey, Num(1))),
      Sphere(<<0, 0, 0>>, Num(1), Lambertian(Red)) }

RayChoices ==
    { Ray(<<0, 0, 0>>, <<0, 0, Num(-1)>>),
      Ray(<<0, 0, 0>>, <<0, 0, Num(-2)>>),
      Ray(<<0, 0, 0>>, <<0, Num(1), Num(-1)>>) }

IntervalChoices ==
    { Interval(TMin, Infinity),
      Interval(0, Num(2)),
      Interval(Num(2), Num(10)),
      Interval(Num(3) \div 2, Num(3)) }

SeqsUpTo(S, n) == UNION {[1..m -> S] : m \in 0..n}

(***************************************************************************)
(* hittable_list::hit, one loop iteration at a time                        *)
(***************************************************************************)
VARIABLES
    \* one call of hittable_list::hit
    objects,          \* the list's members
    hit_r,            \* the ray r
    ray_t,            \* the valid interval
    k,                \* the for loop's position in objects (from 1)
    obj_hit,          \* what object->hit returned for member k
    temp_rec, hit_anything, closest_so_far, rec,
    hpc,              \* "test", "tested", "done"; "off" when no call is modelled
    \* the camera
    pc,               \* where render or ray_color stands
    world,            \* the scene: a hittable_list of spheres
    ray0, depth0,     \* the arguments of the outermost ray_color call
    cur,              \* the arguments (r, depth) of the innermost ray_color call
    frames,           \* the attenuation of every call waiting for its recursive call
    ret,              \* the value the innermost finished call returned
    path,             \* history: the attenuations of the scattering hits so far
    term_kind,        \* history: how the innermost call ended
    n_hit, n_scatter, \* history: world.hit and scatter calls since the outermost call
    \* the camera's public fields the model varies, and its private ones
    image_width, aspect_ratio, samples_per_pixel, max_depth,
    image_height, pixel_samples_scale,
    cam,              \* center, pixel00_loc, pixel_delta_u, ... as initialize() sets them
    \* render's locals and its output
    i, j, sample, pixel_color,
    out,              \* what std::cout has received, line by line
    taken,            \* history: every sample render has added to a pixel_color:
                      \* the pixel, the ray, the depth asked, the value returned
    \* write_color and metal::metal applied to drawn arguments
    wc_color, wc_bytes, mt_fuzz, mt_metal, upc,
    \* set_face_normal and sphere::hit applied to drawn arguments
    fn_r,             \* the ray
    fn_outward,       \* the outward normal given to set_face_normal
    fn_sphere,        \* the sphere whose hit is called
    fn_hit,           \* what sphere::hit returned
    fn_rec,           \* the hit_record written
    fpc               \* "start", "set", "hit"; "off" when not modelled

hitVars == <<objects, hit_r, ray_t, k, obj_hit, temp_rec, hit_anything,
             closest_so_far, rec, hpc>>

rayVars == <<world, ray0, depth0, cur, frames, ret, path, term_kind, n_hit,
             n_scatter>>

renderVars == <<image_width, aspect_ratio, samples_per_pixel, max_depth,
                image_height, pixel_samples_scale, cam, i, j, sample,
                pixel_color, out, taken>>

faceVars == <<fn_r, fn_outward, fn_sphere, fn_hit, fn_rec, fpc>>

unitVars == <<wc_color, wc_bytes, mt_fuzz, mt_metal, upc, faceVars>>

vars == <<hitVars, pc, rayVars, renderVars, unitVars>>

Locals ==
    [temp_rec |-> temp_rec, hit_anything |-> hit_anything,
     closest_so_far |-> closest_so_far, rec |-> rec]

\* The ray where no ray is in scope.
IdleRay == Ray(<<0, 0, 0>>, <<0, 0, Num(-1)>>)

\* render is not modelled.
RenderOff ==
    /\ image_width = 1
    /\ aspect_ratio = Num(1)
    /\ samples_per_pixel = 1
    /\ max_depth = 0
    /\ image_height = 1
    /\ pixel_samples_scale = Num(1)
    /\ cam = NoCam
    /\ i = 0
    /\ j = 0
    /\ sample = 0
    /\ pixel_color = Black
    /\ out = <<>>
    /\ taken = <<>>

\* Neither set_face_normal nor a sphere::hit of its own is modelled.
FaceOff ==
    /\ fn_r = IdleRay
    /\ fn_outward = <<0, 0, 0>>
    /\ fn_sphere = Sphere(<<0, 0, 0>>, 0, NullMat)
    /\ fn_hit = FALSE
    /\ fn_rec = NoRec
    /\ fpc = "off"

\* Neither write_color nor metal::metal is modelled.
UnitOff ==
    /\ wc_color = Black
    /\ wc_bytes = <<0, 0, 0>>
    /\ mt_fuzz = 0
    /\ mt_metal = NullMat
    /\ upc = "off"
    /\ FaceOff

\* No ray_color call is modelled.
RayOff ==
    /\ world = <<>>
    /\ ray0 = IdleRay
    /\ depth0 = 0
    /\ cur = [r |-> ray0, depth |-> depth0]
    /\ frames = <<>>
    /\ ret = Black
    /\ path = <<>>
    /\ term_kind = "none"
    /\ n_hit = 0
    /\ n_scatter = 0

HitInit ==
    /\ pc = "off"
    /\ RayOff
    /\ RenderOff
    /\ UnitOff
    /\ objects \in SeqsUpTo(SphereChoices, MaxObjects)
    /\ hit_r \in RayChoices
    /\ ray_t \in IntervalChoices
    /\ k = 1
    /\ obj_hit = FALSE
    /\ temp_rec = HitLocals(ray_t).temp_rec
    /\ hit_anything = HitLocals(ray_t).hit_anything
    /\ closest_so_far = HitLocals(ray_t).closest_so_far
    /\ rec = HitLocals(ray_t).rec
    /\ hpc = "test"

\* object->hit(r, interval(ray_t.min, closest_so_far), temp_rec) for member k
HitTest ==
    /\ hpc = "test"
    /\ k <= Len(objects)
    /\ \E res \in {ObjectHit(objects[k], hit_r, ray_t, Locals)} :
           /\ obj_hit' = res.hit
           /\ temp_rec' = res.rec
    /\ hpc' = "tested"
    /\ UNCHANGED <<objects, hit_r, ray_t, k, hit_anything, closest_so_far, rec>>
    /\ UNCHANGED <<pc, rayVars, renderVars, unitVars>>

\* The if's body, and on to the next member.
HitNext ==
    /\ hpc = "tested"
    /\ \E st \in {HitUpdate(Locals, [hit |-> obj_hit, rec |-> temp_rec])} :
           /\ hit_anything' = st.hit_anything
           /\ closest_so_far' = st.closest_so_far
           /\ rec' = st.rec
    /\ k' = k + 1
    /\ hpc' = "test"
    /\ UNCHANGED <<objects, hit_r, ray_t, obj_hit, temp_rec>>
    /\ UNCHANGED <<pc, rayVars, renderVars, unitVars>>

\* return hit_anything
HitReturn ==
    /\ hpc = "test"
    /\ k > Len(objects)
    /\ hpc' = "done"
    /\ UNCHANGED <<objects, hit_r, ray_t, k, obj_hit, temp_rec, hit_anything,
                   closest_so_far, rec>>
    /\ UNCHANGED <<pc, rayVars, renderVars, unitVars>>

HitNextState == HitTest \/ HitNext \/ HitReturn

SpecHit == HitInit /\ [][HitNextState]_vars

(***************************************************************************)
(* camera::ray_color, one call or return at a time.  pc = "rc_call": the   *)
(* call with arguments cur is about to run; pc = "rc_ret": a call has      *)
(* returned ret to the caller whose attenuation is the last of frames.     *)
(***************************************************************************)
\* What random_unit_vector() may return.
RandomUnitVectors == {<<0, Num(1), 0>>, <<0, 0, Num(-1)>>, <<Num(1), 0, 0>>}

\* No hittable_list::hit call is modelled one iteration at a time.
HitOff ==
    /\ objects = <<>>
    /\ hit_r = IdleRay
    /\ ray_t = Interval(TMin, Infinity)
    /\ k = 1
    /\ obj_hit = FALSE
    /\ temp_rec = NoRec
    /\ hit_anything = FALSE
    /\ closest_so_far = Infinity
    /\ rec = NoRec
    /\ hpc = "off"

\* if (depth <= 0) return color(0,0,0)
RayColorExhausted ==
    /\ pc = "rc_call"
    /\ cur.depth <= 0
    /\ ret' = Black
    /\ term_kind' = "exhausted"
    /\ pc' = "rc_ret"
    /\ UNCHANGED <<world, ray0, depth0, cur, frames, path, n_hit, n_scatter>>
    /\ UNCHANGED <<hitVars, renderVars, unitVars>>

\* world.hit finds nothing: the background
RayColorMiss ==
    /\ pc = "rc_call"
    /\ cur.depth > 0
    /\ ~WorldHit(world, cur.r).hit
    /\ n_hit' = n_hit + 1
    /\ ret' = Background(cur.r)
    /\ term_kind' = "miss"
    /\ pc' = "rc_ret"
    /\ UNCHANGED <<world, ray0, depth0, cur, frames, path, n_scatter>>
    /\ UNCHANGED <<hitVars, renderVars, unitVars>>

\* world.hit finds a hit, and its material's scatter returns false: black
RayColorAbsorb ==
    /\ pc = "rc_call"
    /\ cur.depth > 0
    /\ \E res \in {WorldHit(world, cur.r)} :
           /\ res.hit
           /\ \E rnd \in RandomUnitVectors :
                 ~Scatter(res.rec.mat, cur.r, res.rec, rnd, Black, cur.r).ok
    /\ n_hit' = n_hit + 1
    /\ n_scatter' = n_scatter + 1
    /\ ret' = Black
    /\ term_kind' = "absorb"
    /\ pc' = "rc_ret"
    /\ UNCHANGED <<world, ray0, depth0, cur, frames, path>>
    /\ UNCHANGED <<hitVars, renderVars, unitVars>>

\* world.hit finds a hit, and its material scatters: the recursive call
RayColorScatter ==
    /\ pc = "rc_call"
    /\ cur.depth > 0
    /\ \E res \in {WorldHit(world, cur.r)} :
           /\ res.hit
           /\ \E rnd \in RandomUnitVectors :
               \E sc \in {Scatter(res.rec.mat, cur.r, res.rec, rnd, Black, cur.r)} :
                   /\ sc.ok
                   /\ frames' = Append(frames, sc.attenuation)
                   /\ path' = Append(path, sc.attenuation)
                   /\ cur' = [r |-> sc.scattered, depth |-> NextDepth(cur.depth)]
    /\ n_hit' = n_hit + 1
    /\ n_scatter' = n_scatter + 1
    /\ UNCHANGED <<pc, world, ray0, depth0, ret, term_kind>>
    /\ UNCHANGED <<hitVars, renderVars, unitVars>>

\* return attenuation * (what the recursive call returned)
RayColorReturn ==
    /\ pc = "rc_ret"
    /\ frames # <<>>
    /\ ret' = Attenuate(frames[Len(frames)], ret)
    /\ frames' = SubSeq(frames, 1, Len(frames) - 1)
    /\ UNCHANGED <<pc, world, ray0, depth0, cur, path, term_kind, n_hit, n_scatter>>
    /\ UNCHANGED <<hitVars, renderVars, unitVars>>

(***************************************************************************)
(* One ray_color call on its own: any of the rays, depths and scenes below.*)
(***************************************************************************)
\* The largest depth argument.
MaxDepth == 3

WorldChoices ==
    { <<>>,
      <<Sphere(<<0, 0, Num(-2)>>, Num(1), Lambertian(Grey))>>,
      <<Sphere(<<0, 0, Num(-2)>>, Num(1), Metal(Red, Num(1))),
        Sphere(<<0, Num(3), Num(-1)>>, Num(1), Material)>>,
      <<Sphere(<<0, 0, Num(-2)>>, Num(1), Lambertian(Grey)),
        Sphere(<<0, Num(2), 0>>, Num(1), Lambertian(Red)),
        Sphere(<<0, 0, Num(2)>>, Num(1), Material)>> }

RayInit ==
    /\ HitOff
    /\ RenderOff
    /\ UnitOff
    /\ world \in WorldChoices
    /\ ray0 \in RayChoices
    /\ depth0 \in -1..MaxDepth
    /\ cur = [r |-> ray0, depth |-> depth0]
    /\ frames = <<>>
    /\ ret = Black
    /\ path = <<>>
    /\ term_kind = "none"
    /\ n_hit = 0
    /\ n_scatter = 0
    /\ pc = "rc_call"

\* The outermost call returns.
RayColorDone ==
    /\ pc = "rc_ret"
    /\ frames = <<>>
    /\ pc' = "rc_done"
    /\ UNCHANGED <<rayVars, hitVars, renderVars, unitVars>>

RayNext ==
    \/ RayColorExhausted
    \/ RayColorMiss
    \/ RayColorAbsorb
    \/ RayColorScatter
    \/ RayColorReturn
    \/ RayColorDone

SpecRay == RayInit /\ [][RayNext]_vars

\* ray_color is sequential code: a call that can take a step takes it.
FairSpecRay == SpecRay /\ WF_vars(RayNext)

(***************************************************************************)
(* camera::render, one loop step at a time.  pc = "start": render has been *)
(* called; "header": initialize() has returned; "row", "pixel", "sample":  *)
(* at the test of the loop over j, i, sample; "done": render has returned. *)
(***************************************************************************)
\* The widest image, and the most samples per pixel.
MaxWidth == 2

MaxSamples == 2

\* The largest max_depth.
MaxBounce == 2

AspectChoices == {Num(1), Num(2)}

\* What random_double() may return.
RandomDoubles == {Scale \div 2}

RenderWorlds ==
    { <<>>,
      <<Sphere(<<-Scale \div 2, Scale \div 2, Num(-1)>>, (3 * Scale) \div 10,
               Lambertian(Grey)),
        Sphere(<<Scale \div 2, Num(3) \div 2, Num(1)>>, Scale \div 2, Material)>>,
      <<Sphere(<<0, 0, Num(-2)>>, Scale \div 2, Metal(Red, Num(1)))>> }

HeaderLine == [kind |-> "header", width |-> image_width, height |-> image_height,
               maxval |-> 255]

\* The line write_color writes; pi and pj record the pixel it is written for.
PixelLine(pi, pj, bytes) == [kind |-> "pixel", i |-> pi, j |-> pj, bytes |-> bytes]

RenderInit ==
    /\ HitOff
    /\ UnitOff
    /\ world \in RenderWorlds
    /\ ray0 = IdleRay
    /\ depth0 = 0
    /\ cur = [r |-> ray0, depth |-> depth0]
    /\ frames = <<>>
    /\ ret = Black
    /\ path = <<>>
    /\ term_kind = "none"
    /\ n_hit = 0
    /\ n_scatter = 0
    /\ image_width \in 1..MaxWidth
    /\ aspect_ratio \in AspectChoices
    /\ samples_per_pixel \in 0..MaxSamples
    /\ max_depth \in 0..MaxBounce
    /\ image_height = 0
    /\ pixel_samples_scale = 0
    /\ cam = NoCam
    /\ i = 0
    /\ j = 0
    /\ sample = 0
    /\ pixel_color = Black
    /\ out = <<>>
    /\ taken = <<>>
    /\ pc = "start"

\* initialize()
Initialize ==
    /\ pc = "start"
    /\ \E h \in {ImageHeight(image_width, aspect_ratio)} :
           /\ image_height' = h
           /\ cam' = CameraGeometry(image_width, h)
    /\ pixel_samples_scale' = PixelSamplesScale(samples_per_pixel)
    /\ pc' = "header"
    /\ UNCHANGED <<taken, image_width, aspect_ratio, samples_per_pixel, max_depth, i, j,
                   sample, pixel_color, out>>
    /\ UNCHANGED <<hitVars, rayVars, unitVars>>

\* std::cout << "P3\n" << image_width << ' ' << image_height << "\n255\n"
WriteHeader ==
    /\ pc = "header"
    /\ out' = Append(out, HeaderLine)
    /\ j' = 0
    /\ pc' = "row"
    /\ UNCHANGED <<taken, image_width, aspect_ratio, samples_per_pixel, max_depth,
                   image_height, pixel_samples_scale, cam, i, sample, pixel_color>>
    /\ UNCHANGED <<hitVars, rayVars, unitVars>>

\* j < image_height: the row begins
RowBegin ==
    /\ pc = "row"
    /\ j < image_height
    /\ i' = 0
    /\ pc' = "pixel"
    /\ UNCHANGED <<taken, image_width, aspect_ratio, samples_per_pixel, max_depth,
                   image_height, pixel_samples_scale, cam, j, sample, pixel_color,
                   out>>
    /\ UNCHANGED <<hitVars, rayVars, unitVars>>

\* j == image_height: render returns
RenderReturn ==
    /\ pc = "row"
    /\ j >= image_height
    /\ pc' = "done"
    /\ UNCHANGED <<renderVars, hitVars, rayVars, unitVars>>

\* PixelBegin, but pixel_color keeps the last pixel's sum.
PixelBeginMut ==
    /\ pc = "pixel"
    /\ i < image_width
    /\ pixel_color' = pixel_color
    /\ sample' = 0
    /\ pc' = "sample"
    /\ UNCHANGED <<taken, image_width, aspect_ratio, samples_per_pixel, max_depth,
                   image_height, pixel_samples_scale, cam, i, j, out>>
    /\ UNCHANGED <<hitVars, rayVars, unitVars>>

\* i < image_width: color pixel_color(0,0,0)
PixelBegin ==
    /\ pc = "pixel"
    /\ i < image_width
    /\ pixel_color' = Black
    /\ sample' = 0
    /\ pc' = "sample"
    /\ UNCHANGED <<taken, image_width, aspect_ratio, samples_per_pixel, max_depth,
                   image_height, pixel_samples_scale, cam, i, j, out>>
    /\ UNCHANGED <<hitVars, rayVars, unitVars>>

\* i == image_width: j++
RowEnd ==
    /\ pc = "pixel"
    /\ i >= image_width
    /\ j' = j + 1
    /\ pc' = "row"
    /\ UNCHANGED <<taken, image_width, aspect_ratio, samples_per_pixel, max_depth,
                   image_height, pixel_samples_scale, cam, i, sample, pixel_color,
                   out>>
    /\ UNCHANGED <<hitVars, rayVars, unitVars>>

\* sample < samples_per_pixel: r = get_ray(i, j), and ray_color(r, max_depth,
\* world) is called
SampleBegin ==
    /\ pc = "sample"
    /\ sample < samples_per_pixel
    /\ \E rd1 \in RandomDoubles, rd2 \in RandomDoubles :
           ray0' = get_ray(cam, i, j, rd1, rd2)
    /\ depth0' = max_depth
    /\ cur' = [r |-> ray0', depth |-> max_depth]
    /\ frames' = <<>>
    /\ path' = <<>>
    /\ term_kind' = "none"
    /\ n_hit' = 0
    /\ n_scatter' = 0
    /\ pc' = "rc_call"
    /\ UNCHANGED <<world, ret, renderVars, hitVars, unitVars>>

\* ray_color has returned: pixel_color += its value, sample++.  The ray r and
\* the call's record end with the loop body.
SampleEnd ==
    /\ pc = "rc_ret"
    /\ frames = <<>>
    /\ pixel_color' = VAdd(pixel_color, ret)
    /\ sample' = sample + 1
    /\ taken' = Append(taken, [i |-> i, j |-> j, r |-> ray0, depth |-> depth0,
                               value |-> ret])
    /\ ray0' = IdleRay
    /\ depth0' = 0
    /\ cur' = [r |-> IdleRay, depth |-> 0]
    /\ ret' = Black
    /\ path' = <<>>
    /\ term_kind' = "none"
    /\ n_hit' = 0
    /\ n_scatter' = 0
    /\ pc' = "sample"
    /\ UNCHANGED <<image_width, aspect_ratio, samples_per_pixel, max_depth,
                   image_height, pixel_samples_scale, cam, i, j, out>>
    /\ UNCHANGED <<world, frames, hitVars, unitVars>>

\* WritePixel, but the column advances by two.
WritePixelMut ==
    /\ pc = "sample"
    /\ sample >= samples_per_pixel
    /\ out' = Append(out, PixelLine(i, j,
                  write_color(ScaleColor(pixel_color, pixel_samples_scale))))
    /\ i' = i + 2
    /\ pc' = "pixel"
    /\ UNCHANGED <<taken, image_width, aspect_ratio, samples_per_pixel, max_depth,
                   image_height, pixel_samples_scale, cam, j, sample, pixel_color>>
    /\ UNCHANGED <<hitVars, rayVars, unitVars>>

\* sample == samples_per_pixel:
\* write_color(std::cout, pixel_color * pixel_samples_scale), i++
WritePixel ==
    /\ pc = "sample"
    /\ sample >= samples_per_pixel
    /\ out' = Append(out, PixelLine(i, j,
                  write_color(ScaleColor(pixel_color, pixel_samples_scale))))
    /\ i' = i + 1
    /\ pc' = "pixel"
    /\ UNCHANGED <<taken, image_width, aspect_ratio, samples_per_pixel, max_depth,
                   image_height, pixel_samples_scale, cam, j, sample, pixel_color>>
    /\ UNCHANGED <<hitVars, rayVars, unitVars>>

Next ==
    \/ Initialize
    \/ WriteHeader
    \/ RowBegin
    \/ RenderReturn
    \/ PixelBegin
    \/ RowEnd
    \/ SampleBegin
    \/ SampleEnd
    \/ WritePixel
    \/ RayColorExhausted
    \/ RayColorMiss
    \/ RayColorAbsorb
    \/ RayColorScatter
    \/ RayColorReturn

Spec == RenderInit /\ [][Next]_vars

(***************************************************************************)
(* write_color and the constructor of metal, each called once on an input. *)
(* upc = "start": nothing called yet; "written": write_color has returned; *)
(* "made": metal::metal has returned.                                      *)
(***************************************************************************)
\* The linear channel values a colour is drawn from: negative, zero, the
\* smallest positive, around 0.999 and 1, above 1, +infinity and NaN.
ChannelChoices ==
    {NaN, -Infinity, -Scale, -1, 0, 1, Scale \div 4, Scale \div 2, 998, 999,
     Scale, Scale + 1, 2 * Scale, Infinity}

\* The fuzz arguments: below 0, 0, inside (0,1), 1 and above 1.
FuzzChoices == {-Scale, -1, 0, Scale \div 2, Scale - 1, Scale, Scale + 1, 2 * Scale}

UnitInit ==
    /\ HitOff
    /\ RayOff
    /\ RenderOff
    /\ pc = "off"
    /\ wc_color \in ChannelChoices \X ChannelChoices \X {0, Scale}
    /\ wc_bytes = <<0, 0, 0>>
    /\ mt_fuzz \in FuzzChoices
    /\ mt_metal = NullMat
    /\ upc = "start"
    /\ FaceOff

\* write_color(out, wc_color)
WriteColor ==
    /\ upc = "start"
    /\ wc_bytes' = write_color(wc_color)
    /\ upc' = "written"
    /\ UNCHANGED <<wc_color, mt_fuzz, mt_metal, faceVars>>
    /\ UNCHANGED <<pc, hitVars, rayVars, renderVars>>

\* metal(Red, mt_fuzz)
MakeMetal ==
    /\ upc = "start"
    /\ mt_metal' = Metal(Red, mt_fuzz)
    /\ upc' = "made"
    /\ UNCHANGED <<wc_color, wc_bytes, mt_fuzz, faceVars>>
    /\ UNCHANGED <<pc, hitVars, rayVars, renderVars>>

UnitNext ==
    \/ WriteColor
    \/ MakeMetal

SpecUnit == UnitInit /\ [][UnitNext]_vars

(***************************************************************************)
(* hit_record::set_face_normal, called once on a drawn ray and outward     *)
(* normal, and sphere::hit, which calls it with (rec.p - center) / radius. *)
(* fpc = "start": nothing called yet; "set": set_face_normal has returned; *)
(* "hit": sphere::hit has returned.                                        *)
(***************************************************************************)
\* Rays toward, across and away from the spheres below, one from inside.
FaceRays ==
    RayChoices \union
        { Ray(<<0, 0, 0>>, <<Num(1), 0, 0>>),
          Ray(<<0, 0, Num(-2)>>, <<0, Num(-1), Num(1)>>) }

\* Outward normals: unit vectors, the zero vector, and what a division by a
\* zero radius gives.
OutwardChoices ==
    { <<0, 0, Num(1)>>, <<0, 0, Num(-1)>>, <<0, Num(1), 0>>, <<0, 0, 0>>,
      <<Num(-1), 0, 0>>, <<NaN, NaN, NaN>>, <<NaN, NaN, Infinity>> }

\* A sphere ahead, one around the origin, and two of radius 0 (one given -1).
FaceSpheres ==
    { Sphere(<<0, 0, Num(-2)>>, Num(1), Material),
      Sphere(<<0, 0, 0>>, Num(3), Material),
      Sphere(<<0, 0, Num(-2)>>, 0, Material),
      Sphere(<<0, 0, Num(-2)>>, Num(-1), Lambertian(Grey)) }

FaceInit ==
    /\ HitOff
    /\ RayOff
    /\ RenderOff
    /\ pc = "off"
    /\ wc_color = Black
    /\ wc_bytes = <<0, 0, 0>>
    /\ mt_fuzz = 0
    /\ mt_metal = NullMat
    /\ upc = "off"
    /\ fn_r \in FaceRays
    /\ fn_outward \in OutwardChoices
    /\ fn_sphere \in FaceSpheres
    /\ fn_hit = FALSE
    /\ fn_rec = NoRec
    /\ fpc = "start"

\* fn_rec.set_face_normal(fn_r, fn_outward)
SetFaceNormal ==
    /\ fpc = "start"
    /\ fn_rec' = set_face_normal(fn_rec, fn_r, fn_outward)
    /\ fpc' = "set"
    /\ UNCHANGED <<fn_r, fn_outward, fn_sphere, fn_hit>>
    /\ UNCHANGED <<wc_color, wc_bytes, mt_fuzz, mt_metal, upc>>
    /\ UNCHANGED <<pc, hitVars, rayVars, renderVars>>

\* fn_sphere.hit(fn_r, interval(0.0001, infinity), fn_rec)
FaceSphereHit ==
    /\ fpc = "start"
    /\ \E res \in {SphereHit(fn_sphere, fn_r, Interval(TMin, Infinity), fn_rec)} :
           /\ fn_hit' = res.hit
           /\ fn_rec' = res.rec
    /\ fpc' = "hit"
    /\ UNCHANGED <<fn_r, fn_outward, fn_sphere>>
    /\ UNCHANGED <<wc_color, wc_bytes, mt_fuzz, mt_metal, upc>>
    /\ UNCHANGED <<pc, hitVars, rayVars, renderVars>>

FaceNext ==
    \/ SetFaceNormal
    \/ FaceSphereHit

SpecFace == FaceInit /\ [][FaceNext]_vars

(***************************************************************************)
(* What each member reports on its own, for the call's ray and interval.   *)
(***************************************************************************)
MemberT(m) == SphereHit(objects[m], hit_r, ray_t, NoRec)

MemberHits == {m \in 1..Len(objects) : MemberT(m).hit}

\* The members whose hit is the nearest.
Nearest ==
    {m \in MemberHits : \A n \in MemberHits : MemberT(m).rec.t <= MemberT(n).rec.t}

FirstOf(S) == CHOOSE m \in S : \A n \in S : m <= n

LastOf(S) == CHOOSE m \in S : \A n \in S : n <= m

\* C1: hittable_list::hit reports a hit exactly when some member reports one
\* with t inside the interval, and the t it returns is the least t any member
\* reports; a list without members reports no hit.
C1_ListHitNearest ==
    hpc = "done" =>
        /\ hit_anything <=> MemberHits # {}
        /\ Len(objects) = 0 => ~hit_anything
        /\ hit_anything =>
              /\ contains(ray_t, rec.t)
              /\ \E m \in MemberHits : rec.t = MemberT(m).rec.t
              /\ \A m \in MemberHits : rec.t <= MemberT(m).rec.t

\* A call has returned a hit nearer than the one its first member reports.
C1_Witness ==
    /\ hpc = "done"
    /\ hit_anything
    /\ 1 \in MemberHits
    /\ rec.t < MemberT(1).rec.t

\* C2 as stated: of the members whose hit is the nearest, the one tested first
\* gives the record, and a member replaces the closest hit so far only with a
\* strictly smaller t.
C2_TieFirstWins ==
    /\ hpc = "done" /\ hit_anything => rec = MemberT(FirstOf(Nearest)).rec
    /\ hpc = "tested" /\ obj_hit /\ hit_anything /\ temp_rec # rec
          => temp_rec.t < rec.t

\* C2 as amended: of the members whose hit is the nearest, the one tested LAST
\* gives the record; a member replaces the closest hit so far whenever its t
\* is smaller or equal, the interval it is asked about being closed.
C2_TieLastWins ==
    /\ hpc = "done" /\ hit_anything => rec = MemberT(LastOf(Nearest)).rec
    /\ hpc = "tested" /\ obj_hit /\ hit_anything => temp_rec.t <= rec.t
    /\ hpc = "tested" /\ hit_anything /\ MemberT(k).hit
          /\ MemberT(k).rec.t <= rec.t => obj_hit

\* A call has returned where two members with different records both report
\* the nearest t.
C2_Witness ==
    /\ hpc = "done"
    /\ hit_anything
    /\ Cardinality(Nearest) >= 2
    /\ MemberT(FirstOf(Nearest)).rec # MemberT(LastOf(Nearest)).rec

(***************************************************************************)
(* sphere::hit, as the loop has just called it for member k.               *)
(***************************************************************************)
AskedT == Interval(ray_t.min, closest_so_far)

AskedQuad == Quad(objects[k], hit_r)

SmallRoot == FDiv(AskedQuad.h - FSqrt(AskedQuad.discriminant), AskedQuad.a)

LargeRoot == FDiv(AskedQuad.h + FSqrt(AskedQuad.discriminant), AskedQuad.a)

IsWhole(x) == x % Scale = 0

\* a*t*t - 2*h*t + c for whole a, h, c and t
Residual(q, t) ==
    LET a == q.a \div Scale
        h == q.h \div Scale
        c == q.c \div Scale
        u == t \div Scale
    IN  a * u * u - 2 * h * u + c

\* C10: sphere::hit reports no hit on a negative discriminant; otherwise it
\* takes the smaller root if the closed interval contains it, else the larger
\* root if the interval contains that, else reports no hit; a reported t lies
\* in the interval, is a root of the quadratic, and no root in the interval is
\* smaller.
C10_SphereHitRoot ==
    hpc = "tested" =>
        IF AskedQuad.discriminant < 0 THEN ~obj_hit
        ELSE /\ obj_hit <=> (contains(AskedT, SmallRoot) \/ contains(AskedT, LargeRoot))
             /\ obj_hit =>
                   /\ contains(AskedT, temp_rec.t)
                   /\ temp_rec.t = IF contains(AskedT, SmallRoot)
                                    THEN SmallRoot ELSE LargeRoot
                   /\ \A x \in {SmallRoot, LargeRoot} :
                         contains(AskedT, x) => temp_rec.t <= x
                   /\ (IsWhole(AskedQuad.a) /\ IsWhole(AskedQuad.h)
                          /\ IsWhole(AskedQuad.c) /\ IsWhole(temp_rec.t))
                        => Residual(AskedQuad, temp_rec.t) = 0

\* sphere::hit has returned the larger root, the smaller one lying outside the
\* interval.
C10_Witness ==
    /\ hpc = "tested"
    /\ obj_hit
    /\ AskedQuad.discriminant > 0
    /\ ~contains(AskedT, SmallRoot)
    /\ temp_rec.t = LargeRoot

(***************************************************************************)
(* ray_color                                                               *)
(***************************************************************************)
\* (1-t)*white + t*blue, t = (y+1)/2, y the second component of the
\* normalized direction
Gradient(dir) ==
    Let(FDiv(dir[2], FSqrt(FMul(dir[1], dir[1]) + FMul(dir[2], dir[2])
                             + FMul(dir[3], dir[3]))), LAMBDA y :
    Let((y + Scale) \div 2, LAMBDA t :
        <<(Scale - t) + (t * 5) \div 10, (Scale - t) + (t * 7) \div 10, Scale>>))

\* C3 as stated: in an empty scene ray_color returns the background gradient
\* of the ray whatever the depth argument is, depth <= 0 included.
C3_GradientAnyDepth ==
    pc = "rc_done" /\ world = <<>> => ret = Gradient(ray0.direction)

\* C3 as amended: in an empty scene ray_color returns the background gradient
\* of the ray for every depth > 0, after one world.hit and no scatter; for
\* depth <= 0 it returns black.
C3_GradientPositiveDepth ==
    pc = "rc_done" /\ world = <<>> =>
        IF depth0 > 0
        THEN ret = Gradient(ray0.direction) /\ n_hit = 1 /\ n_scatter = 0
        ELSE ret = Black

\* A call with depth > 1 in the empty scene has returned, for a ray that
\* points upward.
C3_Witness ==
    /\ pc = "rc_done"
    /\ world = <<>>
    /\ depth0 > 1
    /\ ray0.direction[2] > 0
    /\ ret # Black

Max0(d) == IF d > 0 THEN d ELSE 0

\* What C8 says of every state of a call.
C8_Bounded ==
    pc \in {"rc_call", "rc_ret", "rc_done"} =>
        /\ n_hit <= Max0(depth0)
        /\ n_scatter <= Max0(depth0)
        /\ n_scatter <= n_hit
        /\ cur.depth = depth0 - Len(path)
        /\ Len(frames) <= Len(path)
        /\ depth0 <= 0 => n_hit = 0 /\ n_scatter = 0
        /\ depth0 <= 0 /\ pc # "rc_call" => ret = Black
        /\ pc # "rc_call" => term_kind \in {"exhausted", "miss", "absorb"}

\* C8: ray_color terminates whatever the scene and the scatter outcomes are:
\* at depth <= 0 it returns black without asking the scene, every recursive
\* call gets depth-1, and a call with depth d makes at most d world.hit and at
\* most d scatter calls before it ends by depth exhaustion, a miss or an
\* absorption.
C8_Terminates == []C8_Bounded /\ <>(pc = "rc_done")

\* A call has returned after as many world.hit and scatter calls as its depth
\* allows, twice or more.
C8_Witness ==
    /\ pc = "rc_done"
    /\ depth0 >= 2
    /\ n_hit = depth0
    /\ n_scatter = depth0
    /\ term_kind = "exhausted"

\* The value the innermost call ended with.
Terminal == IF term_kind = "miss" THEN Background(cur.r) ELSE Black

RECURSIVE PathProduct(_, _)
\* a1 * (a2 * (... * (an * c))), elementwise
PathProduct(atts, c) ==
    IF atts = <<>> THEN c
    ELSE VMul(Head(atts), PathProduct(Tail(atts), c))

\* C9: what ray_color returns is the elementwise product of the attenuations
\* of the scattering hits along the path with the terminal value, which is
\* the background gradient on a miss and black on an absorption or on depth
\* exhaustion; so a path that ends in an absorption gives black.
C9_PathProduct ==
    pc = "rc_done" =>
        /\ ret = PathProduct(path, Terminal)
        /\ term_kind = "miss" => Terminal = Gradient(cur.r.direction)
        /\ term_kind \in {"absorb", "exhausted"} => ret = Black

\* A call has returned the background seen after two scattering hits.
C9_Witness ==
    /\ pc = "rc_done"
    /\ Len(path) >= 2
    /\ term_kind = "miss"
    /\ ret # Black
    /\ ret # Terminal

\* A call has returned black because the second hit's material absorbed.
C9_WitnessAbsorb ==
    /\ pc = "rc_done"
    /\ Len(path) >= 1
    /\ term_kind = "absorb"

(***************************************************************************)
(* camera::render                                                          *)
(***************************************************************************)
\* The pixel lines render has written.
PixelLines == SubSeq(out, 2, Len(out))

\* C4: render writes the header (P3, width height, 255) first and then the
\* pixel lines in row-major order, the n-th of them for column n % width of
\* row n / width, so that none is written twice or skipped; when render has
\* returned there are exactly image_width * image_height of them.
C4_RowMajor ==
    /\ pc \in {"start", "header"} <=> out = <<>>
    /\ out # <<>> =>
          /\ out[1] = [kind |-> "header", width |-> image_width,
                       height |-> image_height, maxval |-> 255]
          /\ image_height >= 1
          /\ \A n \in 1..Len(PixelLines) :
                /\ PixelLines[n].kind = "pixel"
                /\ PixelLines[n].i = (n - 1) % image_width
                /\ PixelLines[n].j = (n - 1) \div image_width
          /\ Len(PixelLines) <= image_width * image_height
    /\ pc \in {"pixel", "sample", "rc_call", "rc_ret"} =>
          Len(PixelLines) = j * image_width + i
    /\ pc = "row" => Len(PixelLines) = j * image_width
    /\ pc = "done" => Len(PixelLines) = image_width * image_height

\* render has returned from an image of two rows of two pixels.
C4_Witness ==
    /\ pc = "done"
    /\ image_width = 2
    /\ image_height = 2
    /\ Len(PixelLines) = 4
    /\ PixelLines[3].i = 0
    /\ PixelLines[3].j = 1

\* C6 as stated: with samples_per_pixel = 0 render does not get past
\* initialize: no header and no pixel is written, no pixel is evaluated, and
\* the quotient 1.0 / 0 is never used to scale a pixel.
C6_ZeroSamplesRejected ==
    samples_per_pixel = 0 =>
        /\ pc \in {"start", "header"}
        /\ out = <<>>

\* What the code does instead: render with samples_per_pixel = 0 has
\* returned, having written every pixel from 0 * (1.0 / 0).
C6_Witness ==
    /\ samples_per_pixel = 0
    /\ pc = "done"
    /\ pixel_samples_scale = Infinity
    /\ Len(PixelLines) = image_width * image_height
    /\ \A n \in 1..Len(PixelLines) : PixelLines[n].bytes = <<0, 0, 0>>

(***************************************************************************)
(* write_color                                                             *)
(***************************************************************************)
\* The square root of x, rounded down to the grid; +infinity for +infinity.
GammaOf(x) ==
    IF x = Infinity THEN Infinity
    ELSE CHOOSE s \in 0..(2 * Scale) : s * s <= x * Scale /\ x * Scale < (s + 1) * (s + 1)

\* trunc(256 * clamp(g, 0, 0.999))
ByteOf(g) ==
    LET c == IF g > 999 THEN 999 ELSE g
    IN  CHOOSE b \in 0..256 : b * Scale <= 256 * c /\ 256 * c < (b + 1) * Scale

\* C5: for every linear channel value x write_color writes an integer in
\* 0..255, never 256: 0 for x <= 0 (and for NaN), 255 for x >= 0.999, and
\* otherwise trunc(256 * clamp(sqrt(x), 0, 0.999)).
C5_ByteRange ==
    upc = "written" =>
        \A n \in 1..3 :
            LET x == wc_color[n]
                b == wc_bytes[n]
            IN  /\ b \in 0..255
                /\ (x = NaN \/ x <= 0) => b = 0
                /\ (x # NaN /\ x >= 999) => b = 255
                /\ (x # NaN /\ x > 0) => b = ByteOf(GammaOf(x))

\* write_color has written 255 for a channel above 1, 0 for a negative one.
C5_Witness ==
    /\ upc = "written"
    /\ wc_color[1] > Scale
    /\ wc_bytes[1] = 255
    /\ wc_color[2] < 0
    /\ wc_color[2] # NaN
    /\ wc_bytes[2] = 0

(***************************************************************************)
(* metal::metal                                                            *)
(***************************************************************************)
\* C7 as stated: whatever fuzz the constructor of metal is given, the fuzz it
\* stores lies in [0,1].
C7_FuzzInRange ==
    upc = "made" => 0 <= mt_metal.fuzz /\ mt_metal.fuzz <= Num(1)

\* What the code does instead: a negative fuzz is stored as it is.
C7_Witness ==
    /\ upc = "made"
    /\ mt_fuzz < 0
    /\ mt_metal.fuzz = mt_fuzz

(***************************************************************************)
(* hit_record::set_face_normal                                             *)
(***************************************************************************)
\* set_face_normal has just written fn_rec, called directly or by sphere::hit.
FaceWritten == fpc = "set" \/ (fpc = "hit" /\ fn_hit)

\* The outward normal it was given.
GivenOutward ==
    IF fpc = "set" THEN fn_outward
    ELSE VDiv(VSub(fn_rec.p, fn_sphere.center), fn_sphere.radius)

\* u == v as the code would evaluate it: a NaN equals nothing.
VecEq(u, v) ==
    \A n \in 1..3 : u[n] # NaN /\ v[n] # NaN /\ u[n] = v[n]

\* C11 as stated: after set_face_normal(ray, outward_normal) the stored normal
\* is oriented against the ray, dot(ray.direction, normal) <= 0, for every ray
\* direction and outward normal; front_face is true exactly when
\* dot(ray.direction, outward_normal) < 0; and the normal equals
\* outward_normal when front_face is true and its negation otherwise.
C11_NormalAgainstRay ==
    FaceWritten =>
        /\ Le(dot(fn_r.direction, fn_rec.normal), 0)
        /\ fn_rec.front_face <=> Lt(dot(fn_r.direction, GivenOutward), 0)
        /\ VecEq(fn_rec.normal,
                 IF fn_rec.front_face THEN GivenOutward ELSE VNeg(GivenOutward))

\* C11 for the outward normals that are numbers: where
\* dot(ray.direction, outward_normal) is not a NaN the stored normal is
\* oriented against the ray, and front_face and the normal are as stated.
C11_AgainstRayWhereDefined ==
    FaceWritten /\ dot(fn_r.direction, GivenOutward) # NaN =>
        /\ Le(dot(fn_r.direction, fn_rec.normal), 0)
        /\ fn_rec.front_face <=> dot(fn_r.direction, GivenOutward) < 0
        /\ \A n \in 1..3 :
              fn_rec.normal[n] =
                  IF fn_rec.front_face THEN GivenOutward[n] ELSE XNeg(GivenOutward[n])

\* What the code does instead: sphere::hit of a sphere of radius 0 has
\* reported a hit at its centre and stored the normal 0/0, which is oriented
\* neither way.
C11_Witness ==
    /\ fpc = "hit"
    /\ fn_hit
    /\ fn_sphere.radius = 0
    /\ fn_rec.p = fn_sphere.center
    /\ fn_rec.normal = <<NaN, NaN, NaN>>
    /\ ~fn_rec.front_face
    /\ ~Le(dot(fn_r.direction, fn_rec.normal), 0)

\* sphere::hit has stored a flipped normal: the ray left the sphere from
\* inside.
C11_WitnessFlipped ==
    /\ fpc = "hit"
    /\ fn_hit
    /\ fn_sphere.radius > 0
    /\ ~fn_rec.front_face
    /\ fn_rec.normal = VNeg(GivenOutward)
    /\ dot(fn_r.direction, fn_rec.normal) < 0

(***************************************************************************)
(* camera::render: the samples of each pixel                               *)
(***************************************************************************)
\* The samples taken for pixel (pi, pj), in the order they were added.
SamplesOf(pi, pj) == SelectSeq(taken, LAMBDA e : e.i = pi /\ e.j = pj)

RECURSIVE SumValues(_)
\* black + v1 + v2 + ..., in the order of the additions
SumValues(es) ==
    IF es = <<>> THEN Black
    ELSE VAdd(SumValues(SubSeq(es, 1, Len(es) - 1)), es[Len(es)].value)

\* The rays get_ray(pi, pj) may return.
RaysOf(pi, pj) ==
    {get_ray(cam, pi, pj, rd1, rd2) : rd1 \in RandomDoubles, rd2 \in RandomDoubles}

\* The place of pixel (pi, pj) in row-major order, from 0.
PlaceOf(pi, pj) == pj * image_width + pi

\* C12: in render every pixel's colour is written exactly once, and only
\* after exactly samples_per_pixel samples have been added for that pixel,
\* each being one get_ray(i, j) for that pixel followed by one ray_color call
\* started at depth max_depth; the accumulator starts every pixel at black,
\* so that what is written for a pixel is the scaled sum of its own samples.
C12_PixelSampling ==
    /\ \A n \in 1..Len(PixelLines) :
          /\ Len(SamplesOf(PixelLines[n].i, PixelLines[n].j)) = samples_per_pixel
          /\ PixelLines[n].bytes =
                 write_color(ScaleColor(
                     SumValues(SamplesOf(PixelLines[n].i, PixelLines[n].j)),
                     pixel_samples_scale))
          /\ \A m \in 1..Len(PixelLines) :
                 (PixelLines[m].i = PixelLines[n].i
                     /\ PixelLines[m].j = PixelLines[n].j) => m = n
    /\ \A n \in 1..Len(taken) :
          /\ taken[n].depth = max_depth
          /\ taken[n].r \in RaysOf(taken[n].i, taken[n].j)
          /\ taken[n].i \in 0..(image_width - 1)
          /\ taken[n].j \in 0..(image_height - 1)
          /\ PlaceOf(taken[n].i, taken[n].j) <= Len(PixelLines)
          /\ n > 1 => PlaceOf(taken[n - 1].i, taken[n - 1].j)
                          <= PlaceOf(taken[n].i, taken[n].j)
    /\ pc \in {"sample", "rc_call", "rc_ret"} =>
          /\ sample <= samples_per_pixel
          /\ Len(SamplesOf(i, j)) = sample
          /\ pixel_color = SumValues(SamplesOf(i, j))
          /\ Len(taken) = Len(PixelLines) * samples_per_pixel + sample
    /\ pc \in {"rc_call", "rc_ret"} =>
          /\ sample < samples_per_pixel
          /\ depth0 = max_depth
          /\ ray0 \in RaysOf(i, j)
    /\ pc \in {"pixel", "row", "done"} =>
          Len(taken) = Len(PixelLines) * samples_per_pixel
    /\ pc = "done" => Len(PixelLines) = image_width * image_height

\* render has returned from an image of two pixels or more, two samples each,
\* where one pixel's samples sum to another colour than the next pixel's.
C12_Witness ==
    /\ pc = "done"
    /\ samples_per_pixel = 2
    /\ Len(PixelLines) >= 2
    /\ Len(taken) = 2 * Len(PixelLines)
    /\ SumValues(SamplesOf(0, 0)) # Black
    /\ SumValues(SamplesOf(0, 0)) # SumValues(SamplesOf(1, 0))
    /\ PixelLines[1].bytes # PixelLines[2].bytes

====
